---------------------------- MODULE Spec2Model ----------------------------
(***************************************************************************)
(* Model of the span-parameter core of the trace generator:                *)
(*   - mergeSpanParameters (artifactLoader.ts), the Parameter Set Merger;  *)
(*   - parseStepLogs (logParser.ts), the Tag Scanner;                      *)
(*   - parseJobLogs (logParser.ts), the Step Log Segmenter;                *)
(*   - loadSpanParametersFromArtifact (artifactLoader.ts), the loader.     *)
(*                                                                         *)
(* JavaScript objects are modelled by a heap: an object is an index into   *)
(* `maps` (a key/value mapping) or `tables` (a steps object, step name ->  *)
(* reference of a mapping).  A spread `{...x}` allocates a new object, an  *)
(* assignment `a.f = b.f` would copy a reference.  Keys, values and step   *)
(* names range over ordinary property names.                               *)
(*                                                                         *)
(* A log text is a sequence of tokens: the literal pieces of the tag       *)
(* grammar (tag names, `key=`, `value=`, the double quote, `/>`), white    *)
(* space, and ordinary characters.  The four regular expressions are       *)
(* matched over these tokens as the regex engine matches them over         *)
(* characters.                                                             *)
(***************************************************************************)
EXTENDS Integers, Sequences, FiniteSets, TLC

VARIABLES
    maps,            \* heap of key/value mapping objects (Record<string,string>)
    tables,          \* heap of steps objects (Record<string, Record<...>>)
    artifactParams,  \* first argument of mergeSpanParameters
    logParams,       \* second argument of mergeSpanParameters
    merged,          \* the object mergeSpanParameters returned
    before,          \* contents of the two arguments when the call was made
    logs,            \* argument of parseStepLogs: the text, a sequence of tokens
    written,         \* the pieces the text was written from, in text order
    parsed,          \* the ParsedStepLogs parseStepLogs returned
    lastIndex,       \* lastIndex of each of the four module-level patterns
    calls,           \* the calls of parseStepLogs made so far: text and result
    jobLog,          \* first argument of parseJobLogs: the text of a job log
    steps,           \* second argument of parseJobLogs: the step descriptors
    jobLines,        \* the lines the job log was written from, in order
    lines,           \* parseJobLogs: jobLog.split("\n")
    lineNo,          \* parseJobLogs: how many lines the loop has consumed
    currentStepNumber,   \* parseJobLogs: index of the open segment, -1 before
    currentStepLogs,     \* parseJobLogs: the lines of the open segment
    stepLogs,        \* parseJobLogs: the Map<number, ParsedStepLogs> it returns
    debugOutput,     \* what parseJobLogs has passed to core.debug
    request,         \* loader: whether run id, client, owner and repo were given
    fileSystem,      \* loader: the files and directories under the working directory
    consulted,       \* loader: the sources consulted so far, in order
    messages,        \* loader: what was passed to core.info and core.warning
    loaded,          \* loader: what loadSpanParametersFromArtifact returned
    error,           \* loader: the exception that was thrown, "none" without one
    pc               \* merger: "start" | "returned" | "threw" | "mutated"
                     \* scanner: "logs" | "parsed"
                     \* segmenter: "job" | "scan" | "done"
                     \* pattern state: "calls"
                     \* loader: "local" | "source" | "hostList" | "hostDownload"
                     \*   | "hostExtract" | "mkdir" | "getArtifact"
                     \*   | "downloadArtifact" | "readParams" | "catch" | "loaded"

mergerVars == <<maps, tables, artifactParams, logParams, merged, before>>
scannerVars == <<logs, written, parsed>>
patternVars == <<lastIndex, calls>>
localVars == <<lines, lineNo, currentStepNumber, currentStepLogs, stepLogs, debugOutput>>
segmenterVars == <<jobLog, steps, jobLines, localVars>>
loaderVars == <<request, fileSystem, consulted, messages, loaded, error>>
vars == <<mergerVars, scannerVars, patternVars, segmenterVars, loaderVars, pc>>

---------------------------------------------------------------------------
(* Bounds of the input domains *)

\* largest number of key/value entries one source bundle holds
MaxParams == 1

\* largest number of key/value entries of the two arguments together, when the
\* arguments may lack properties
MaxUntypedParams == 1

Keys == {"k1", "k2"}
Values == {"v1", "v2"}
StepNames == {"s1", "s2"}

\* the entry a caller writes when it later changes the returned structure
ChangedKey == "k1"
Changed == "changed"

---------------------------------------------------------------------------
(* SpanParameters values and their layout in the heap *)

\* `undefined`: the reference held by a property that is missing
Undefined == 0

EmptyMap == [k \in {} |-> "v1"]
EmptyTable == [s \in {} |-> 0]

ParamMaps == UNION {[D -> Values] : D \in SUBSET Keys}
StepMaps == UNION {[D -> ParamMaps] : D \in SUBSET StepNames}

RECURSIVE SumSizes(_, _)
SumSizes(stepMaps, names) ==
    IF names = {} THEN 0
    ELSE LET s == CHOOSE x \in names : TRUE
         IN Cardinality(DOMAIN stepMaps[s]) + SumSizes(stepMaps, names \ {s})

ParamCount(b) ==
    Cardinality(DOMAIN b.workflow) + Cardinality(DOMAIN b.job)
        + SumSizes(b.steps, DOMAIN b.steps)

\* the contents of an absent (null) argument, as a value
AbsentValue ==
    [present |-> FALSE, hasWorkflow |-> FALSE, hasJob |-> FALSE, hasSteps |-> FALSE,
     workflow |-> EmptyMap, job |-> EmptyMap, steps |-> [s \in {} |-> EmptyMap]]

\* SpanParameters: the three mappings, all present
SpanParameters ==
    {b \in [present : {TRUE}, hasWorkflow : {TRUE}, hasJob : {TRUE}, hasSteps : {TRUE},
            workflow : ParamMaps, job : ParamMaps, steps : StepMaps] :
        ParamCount(b) <= MaxParams}

\* SpanParameters | null
TypedArguments == SpanParameters \cup {AbsentValue}

\* objects that lack some of the three properties (what JSON.parse may hand over)
UntypedArguments ==
    {[b EXCEPT !.hasWorkflow = w, !.hasJob = j, !.hasSteps = s,
               !.workflow = IF w THEN b.workflow ELSE EmptyMap,
               !.job = IF j THEN b.job ELSE EmptyMap,
               !.steps = IF s THEN b.steps ELSE [x \in {} |-> EmptyMap]] :
        b \in {x \in [present : {TRUE}, hasWorkflow : {TRUE}, hasJob : {TRUE},
                       hasSteps : {TRUE}, workflow : ParamMaps, job : ParamMaps,
                       steps : StepMaps] : ParamCount(x) <= MaxUntypedParams},
        w \in BOOLEAN, j \in BOOLEAN, s \in BOOLEAN}
    \cup {AbsentValue}

\* a reference to no object: the argument is null
Null == [present |-> FALSE, workflow |-> Undefined, job |-> Undefined, steps |-> Undefined]

RECURSIVE StoreSteps(_, _, _, _)
\* allocate the per-step mappings of `stepMaps` and enter them in table `t`
StoreSteps(h, t, stepMaps, names) ==
    IF names = {} THEN h
    ELSE LET s == CHOOSE x \in names : TRUE
             m == Append(h.maps, stepMaps[s])
             h1 == [maps |-> m,
                    tables |-> [h.tables EXCEPT ![t] = (s :> Len(m)) @@ @]]
         IN StoreSteps(h1, t, stepMaps, names \ {s})

\* place the value `b` in the heap `h`: the new heap and the reference to b
Store(h, b) ==
    IF ~b.present THEN [heap |-> h, ref |-> Null]
    ELSE LET h1 == IF b.hasWorkflow THEN [h EXCEPT !.maps = Append(@, b.workflow)] ELSE h
             w == IF b.hasWorkflow THEN Len(h1.maps) ELSE Undefined
             h2 == IF b.hasJob THEN [h1 EXCEPT !.maps = Append(@, b.job)] ELSE h1
             j == IF b.hasJob THEN Len(h2.maps) ELSE Undefined
             h3 == IF b.hasSteps THEN [h2 EXCEPT !.tables = Append(@, EmptyTable)] ELSE h2
             t == IF b.hasSteps THEN Len(h3.tables) ELSE Undefined
             h4 == IF b.hasSteps THEN StoreSteps(h3, t, b.steps, DOMAIN b.steps) ELSE h3
         IN [heap |-> h4,
             ref |-> [present |-> TRUE, workflow |-> w, job |-> j, steps |-> t]]

\* the contents reachable from reference `r` in heap `h`, as a value
View(h, r) ==
    [present |-> r.present,
     hasWorkflow |-> r.workflow # Undefined,
     hasJob |-> r.job # Undefined,
     hasSteps |-> r.steps # Undefined,
     workflow |-> IF r.workflow = Undefined THEN EmptyMap ELSE h.maps[r.workflow],
     job |-> IF r.job = Undefined THEN EmptyMap ELSE h.maps[r.job],
     steps |-> IF r.steps = Undefined THEN [s \in {} |-> EmptyMap]
               ELSE [s \in DOMAIN h.tables[r.steps] |-> h.maps[h.tables[r.steps][s]]]]

\* the mapping objects reachable from reference `r`
MapRefs(h, r) ==
    ({r.workflow, r.job} \ {Undefined})
        \cup (IF r.steps = Undefined THEN {}
              ELSE {h.tables[r.steps][s] : s \in DOMAIN h.tables[r.steps]})

TableRefs(r) == {r.steps} \ {Undefined}

---------------------------------------------------------------------------
(* mergeSpanParameters *)

\* `{ ...x }`: the own entries of x, none when x is undefined
Spread(h, ref) == IF ref = Undefined THEN EmptyMap ELSE h.maps[ref]

\* a merge in which the entries written first are kept
OverlayKeepsFirst(f, g) ==
    [k \in DOMAIN f \cup DOMAIN g |-> IF k \in DOMAIN f THEN f[k] ELSE g[k]]

\* `{ ...f, ...g }`: the entries of f, then those of g written over them
Overlay(f, g) ==
    [k \in DOMAIN f \cup DOMAIN g |-> IF k \in DOMAIN g THEN g[k] ELSE f[k]]

\* `x[stepName]` read from a steps object: undefined when it has no such entry
StepRef(h, t, stepName) ==
    IF stepName \in DOMAIN h.tables[t] THEN h.tables[t][stepName] ELSE Undefined

\* a result object created without its steps property
NewMergedWithoutSteps(h) ==
    LET m1 == Append(h.maps, EmptyMap)
        m2 == Append(m1, EmptyMap)
    IN [maps |-> m2, tables |-> h.tables, threw |-> FALSE,
        merged |-> [present |-> TRUE, workflow |-> Len(m1), job |-> Len(m2),
                    steps |-> Undefined]]

\* const merged = { workflow: {}, job: {}, steps: {} }
NewMerged(h) ==
    LET m1 == Append(h.maps, EmptyMap)
        m2 == Append(m1, EmptyMap)
        t1 == Append(h.tables, EmptyTable)
    IN [maps |-> m2, tables |-> t1, threw |-> FALSE,
        merged |-> [present |-> TRUE, workflow |-> Len(m1), job |-> Len(m2),
                    steps |-> Len(t1)]]

\* `merged.steps[stepName] = value`: a new mapping object entered in merged.steps
SetStep(st, stepName, value) ==
    IF st.merged.steps = Undefined THEN [st EXCEPT !.threw = TRUE]
    ELSE LET m == Append(st.maps, value)
         IN [st EXCEPT !.maps = m,
                       !.tables[st.merged.steps] = (stepName :> Len(m)) @@ @]

\* merged.workflow = { ...logParams.workflow }
LogWorkflow(st, L) ==
    LET m == Append(st.maps, Spread(st, L.workflow))
    IN [st EXCEPT !.maps = m, !.merged.workflow = Len(m)]

\* the job mapping filled from the log's workflow mapping
LogJobFromWorkflow(st, L) ==
    LET m == Append(st.maps, Spread(st, L.workflow))
    IN [st EXCEPT !.maps = m, !.merged.job = Len(m)]

\* merged.job = { ...logParams.job }
LogJob(st, L) ==
    LET m == Append(st.maps, Spread(st, L.job))
    IN [st EXCEPT !.maps = m, !.merged.job = Len(m)]

\* the log's per-step object entered as it is, without a copy
LogStepShared(st, L, stepName) ==
    [st EXCEPT !.tables[st.merged.steps] =
                   (stepName :> st.tables[L.steps][stepName]) @@ @]

\* merged.steps[stepName] = { ...stepParams }
LogStep(st, L, stepName) ==
    SetStep(st, stepName, Spread(st, st.tables[L.steps][stepName]))

RECURSIVE LogSteps(_, _, _)
\* for (const [stepName, stepParams] of Object.entries(logParams.steps))
LogSteps(st, L, names) ==
    IF names = {} \/ st.threw THEN st
    ELSE LET s == CHOOSE x \in names : TRUE
         IN LogSteps(LogStep(st, L, s), L, names \ {s})

\* if (logParams) { ... }: Object.entries(undefined) raises a TypeError
ApplyLog(st, L) ==
    IF ~L.present THEN st
    ELSE LET st2 == LogJob(LogWorkflow(st, L), L)
         IN IF L.steps = Undefined THEN [st2 EXCEPT !.threw = TRUE]
            ELSE LogSteps(st2, L, DOMAIN st2.tables[L.steps])

\* the artifact's workflow mapping replacing the one copied from the log
ArtifactWorkflowReplaces(st, A) ==
    LET m == Append(st.maps, Spread(st, A.workflow))
    IN [st EXCEPT !.maps = m, !.merged.workflow = Len(m)]

\* merged.workflow = { ...merged.workflow, ...artifactParams.workflow }
ArtifactWorkflow(st, A) ==
    LET m == Append(st.maps,
                    Overlay(Spread(st, st.merged.workflow), Spread(st, A.workflow)))
    IN [st EXCEPT !.maps = m, !.merged.workflow = Len(m)]

\* merged.job = { ...merged.job, ...artifactParams.job }
ArtifactJob(st, A) ==
    LET m == Append(st.maps, Overlay(Spread(st, st.merged.job), Spread(st, A.job)))
    IN [st EXCEPT !.maps = m, !.merged.job = Len(m)]

\* the artifact's per-step mapping replacing the step's entries from the log
ArtifactStepReplaces(st, A, stepName) ==
    SetStep(st, stepName, Spread(st, st.tables[A.steps][stepName]))

\* merged.steps[stepName] = { ...merged.steps[stepName], ...stepParams }
ArtifactStep(st, A, stepName) ==
    SetStep(st, stepName,
            Overlay(Spread(st, StepRef(st, st.merged.steps, stepName)),
                    Spread(st, st.tables[A.steps][stepName])))

RECURSIVE ArtifactSteps(_, _, _)
\* for (const [stepName, stepParams] of Object.entries(artifactParams.steps))
ArtifactSteps(st, A, names) ==
    IF names = {} \/ st.threw THEN st
    ELSE LET s == CHOOSE x \in names : TRUE
         IN ArtifactSteps(ArtifactStep(st, A, s), A, names \ {s})

\* the artifact's workflow and job applied, its steps left out
ApplyArtifactWithoutSteps(st, A) ==
    IF ~A.present \/ st.threw THEN st
    ELSE ArtifactJob(ArtifactWorkflow(st, A), A)

\* if (artifactParams) { ... }
ApplyArtifact(st, A) ==
    IF ~A.present \/ st.threw THEN st
    ELSE LET st2 == ArtifactJob(ArtifactWorkflow(st, A), A)
         IN IF A.steps = Undefined THEN [st2 EXCEPT !.threw = TRUE]
            ELSE ArtifactSteps(st2, A, DOMAIN st2.tables[A.steps])

\* the call: the heap after it, the object returned, and whether it threw
mergeSpanParameters(h, A, L) == ApplyArtifact(ApplyLog(NewMerged(h), L), A)

---------------------------------------------------------------------------
(* parseStepLogs: the Tag Scanner *)

\* largest number of pieces (tags, other text) a log text is written from
MaxPieces == 2

Quote == "\""
Slash == "/>"
KeyAttr == "key="
ValueAttr == "value="

\* the literal that opens a tag of each shape
TagName ==
    [span |-> "<span-parameter", step |-> "<step-parameter",
     job |-> "<job-parameter", workflow |-> "<workflow-parameter"]

Shapes == DOMAIN TagName

\* \s
IsSpace(c) == c \in {" ", "\n"}

RECURSIVE SkipSpaces(_, _)
\* \s* from position i: the first position that holds no white space
SkipSpaces(text, i) ==
    IF i <= Len(text) /\ IsSpace(text[i]) THEN SkipSpaces(text, i + 1) ELSE i

RECURSIVE SkipToQuote(_, _)
\* [^"]* from position i: the first position that holds a double quote
SkipToQuote(text, i) ==
    IF i <= Len(text) /\ text[i] # Quote THEN SkipToQuote(text, i + 1) ELSE i

Is(text, i, token) == i <= Len(text) /\ text[i] = token

NoMatch == [ok |-> FALSE, key |-> <<>>, value |-> <<>>, end |-> 0]

\* a pattern that lets a tag end without its closing literal
TagEndOptional(text, e) == TRUE

\* \/> at position e
TagEnd(text, e) == Is(text, e, Slash)

\* /<NAME\s+key="([^"]+)"\s+value="([^"]*)"\s*\/>/ tried at position i:
\* whether it matches there, the two groups, and the last position matched
MatchAt(text, name, i) ==
    IF ~Is(text, i, name) THEN NoMatch
    ELSE
    LET k0 == SkipSpaces(text, i + 1)          \* key=
        k1 == k0 + 2                           \* first position of group 1
        k2 == SkipToQuote(text, k1)            \* the quote closing group 1
        v0 == SkipSpaces(text, k2 + 1)         \* value=
        v1 == v0 + 2                           \* first position of group 2
        v2 == SkipToQuote(text, v1)            \* the quote closing group 2
        e  == SkipSpaces(text, v2 + 1)         \* />
    IN IF /\ k0 > i + 1 /\ Is(text, k0, KeyAttr) /\ Is(text, k0 + 1, Quote)
          /\ k2 > k1 /\ Is(text, k2, Quote)
          /\ v0 > k2 + 1 /\ Is(text, v0, ValueAttr) /\ Is(text, v0 + 1, Quote)
          /\ Is(text, v2, Quote)
          /\ TagEnd(text, e)
       THEN [ok |-> TRUE, key |-> SubSeq(text, k1, k2 - 1),
             value |-> SubSeq(text, v1, v2 - 1), end |-> e]
       ELSE NoMatch

RECURSIVE MatchAll(_, _, _)
\* logs.matchAll(REGEX): the matches from position `from` on, leftmost first,
\* each search resuming after the end of the match before it
MatchAll(text, name, from) ==
    IF from > Len(text) THEN <<>>
    ELSE LET m == MatchAt(text, name, from)
         IN IF m.ok THEN <<m>> \o MatchAll(text, name, m.end + 1)
            ELSE MatchAll(text, name, from + 1)

\* logs.matchAll(REGEX) for a module-level pattern: matchAll searches with a
\* copy of the pattern that starts at the lastIndex the pattern has
SPAN_PARAM_REGEX(text) == MatchAll(text, TagName.span, lastIndex.span + 1)
STEP_PARAM_REGEX(text) == MatchAll(text, TagName.step, lastIndex.step + 1)
JOB_PARAM_REGEX(text) == MatchAll(text, TagName.job, lastIndex.job + 1)
WORKFLOW_PARAM_REGEX(text) == MatchAll(text, TagName.workflow, lastIndex.workflow + 1)

\* lastIndex of a pattern after a search that stops at the first match and
\* leaves the pattern there
AfterFirstMatch(index, matches) ==
    IF matches = <<>> THEN 0 ELSE matches[1].end

\* lastIndex of a pattern after logs.matchAll(pattern) has been iterated: the
\* copy has moved, the pattern itself has not
AfterMatchAll(index, matches) == index

NoParameters == [k \in {} |-> <<>>]

\* an assignment that leaves a key already present as it is
KeepKey(params, match) ==
    IF match.key \in DOMAIN params THEN params ELSE (match.key :> match.value) @@ params

\* the property name whose assignment goes to the accessor of Object.prototype
ProtoKey == <<"__proto__">>

\* params[match[1]] = match[2]; params is an object literal, so for the name
\* __proto__ the assignment calls the setter inherited from Object.prototype,
\* which ignores a string and leaves params without the entry
SetKey(params, match) ==
    IF match.key = ProtoKey THEN params ELSE (match.key :> match.value) @@ params

RECURSIVE ForEachMatch(_, _)
\* for (const match of matches) { params[match[1]] = match[2] }
ForEachMatch(params, matches) ==
    IF matches = <<>> THEN params
    ELSE ForEachMatch(SetKey(params, Head(matches)), Tail(matches))

\* the step-parameter tags read first, the span-parameter tags after them
StepParametersExplicitFirst(text) ==
    ForEachMatch(ForEachMatch(NoParameters, STEP_PARAM_REGEX(text)),
                 SPAN_PARAM_REGEX(text))

\* result.stepParameters: the span-parameter loop, then the step-parameter loop
StepParameters(text) ==
    ForEachMatch(ForEachMatch(NoParameters, SPAN_PARAM_REGEX(text)),
                 STEP_PARAM_REGEX(text))

\* the job-parameter tags read with the pattern of the step-parameter tags
JobParametersFromStepTags(text) == ForEachMatch(NoParameters, STEP_PARAM_REGEX(text))

\* result.jobParameters: the job-parameter loop
JobParameters(text) == ForEachMatch(NoParameters, JOB_PARAM_REGEX(text))

\* result.workflowParameters: the workflow-parameter loop
WorkflowParameters(text) == ForEachMatch(NoParameters, WORKFLOW_PARAM_REGEX(text))

parseStepLogs(text) ==
    [stepParameters |-> StepParameters(text),
     jobParameters |-> JobParameters(text),
     workflowParameters |-> WorkflowParameters(text)]

\* the result object before any loop has run
EmptyParsed ==
    [stepParameters |-> NoParameters, jobParameters |-> NoParameters,
     workflowParameters |-> NoParameters]

---------------------------------------------------------------------------
(* Log texts: what a step prints *)

TagKeys == {<<"a">>, <<"b">>}
TagValues == {<<"1">>, <<"2">>}

\* <NAME key="K" value="V"/>
TagText(shape, key, value) ==
    <<TagName[shape], " ", KeyAttr, Quote>> \o key
        \o <<Quote, " ", ValueAttr, Quote>> \o value \o <<Quote, Slash>>

\* a tag as a step prints it
Tags ==
    {[kind |-> "tag", shape |-> s, key |-> k, value |-> v] :
        s \in Shapes, k \in TagKeys, v \in TagValues}

\* <NAME key=K value="V"/>: a tag printed without the quotes of its key
Unquoted(shape, key, value) ==
    <<TagName[shape], " ", KeyAttr>> \o key
        \o <<" ", ValueAttr, Quote>> \o value \o <<Quote, Slash>>

\* other output of a step: plain text, a line break, tag-like text
Others ==
    {[kind |-> "text", shape |-> "none", key |-> <<>>, value |-> t] :
        t \in {<<"x">>, <<"\n">>}}
    \cup {[kind |-> "unquoted", shape |-> s, key |-> <<"a">>, value |-> <<"1">>] :
            s \in Shapes}

\* keys and values over the whole alphabet of the pattern: empty, with white
\* space, with the literal that closes a tag, the name __proto__
AnyKeys == {<<>>, <<"a">>, <<" ">>, <<Slash>>, ProtoKey}
AnyValues == {<<>>, <<"1">>, <<Slash>>}

\* a tag with any key and any value between its quotes
AnyTags ==
    {[kind |-> "tag", shape |-> s, key |-> k, value |-> v] :
        s \in Shapes, k \in AnyKeys, v \in AnyValues}

NameAttr == "name="
UnknownName == "<foo-parameter"

\* <NAME name="K" value="V"/>: the attribute of the key under another name
WrongName(shape, key, value) ==
    <<TagName[shape], " ", NameAttr, Quote>> \o key
        \o <<Quote, " ", ValueAttr, Quote>> \o value \o <<Quote, Slash>>

\* <NAME value="V" key="K"/>: the two attributes in the other order
WrongOrder(shape, key, value) ==
    <<TagName[shape], " ", ValueAttr, Quote>> \o value
        \o <<Quote, " ", KeyAttr, Quote>> \o key \o <<Quote, Slash>>

\* <NAME key="K" value="V": a tag that is never closed
Unclosed(shape, key, value) ==
    <<TagName[shape], " ", KeyAttr, Quote>> \o key
        \o <<Quote, " ", ValueAttr, Quote>> \o value \o <<Quote>>

\* <NAME key="K" value="V/>: the quote that closes the value is missing
OpenValue(shape, key, value) ==
    <<TagName[shape], " ", KeyAttr, Quote>> \o key
        \o <<Quote, " ", ValueAttr, Quote>> \o value \o <<Slash>>

\* <foo-parameter key="K" value="V"/>: a tag of no recognized shape
Unknown(key, value) ==
    <<UnknownName, " ", KeyAttr, Quote>> \o key
        \o <<Quote, " ", ValueAttr, Quote>> \o value \o <<Quote, Slash>>

MalformedKinds == {"wrongName", "wrongOrder", "unclosed", "openValue"}

\* tag-like text that matches none of the four patterns
Malformed ==
    {[kind |-> m, shape |-> s, key |-> <<"a">>, value |-> <<"1">>] :
        m \in MalformedKinds, s \in Shapes}
    \cup {[kind |-> "unknown", shape |-> "none", key |-> <<"a">>, value |-> <<"1">>]}

\* the tokens a piece consists of
PieceText(p) ==
    CASE p.kind = "tag" -> TagText(p.shape, p.key, p.value)
      [] p.kind = "unquoted" -> Unquoted(p.shape, p.key, p.value)
      [] p.kind = "wrongName" -> WrongName(p.shape, p.key, p.value)
      [] p.kind = "wrongOrder" -> WrongOrder(p.shape, p.key, p.value)
      [] p.kind = "unclosed" -> Unclosed(p.shape, p.key, p.value)
      [] p.kind = "openValue" -> OpenValue(p.shape, p.key, p.value)
      [] p.kind = "unknown" -> Unknown(p.key, p.value)
      [] p.kind = "text" -> p.value

\* the mapping of ParsedStepLogs a tag of each shape belongs to
ScopeOf ==
    [span |-> "stepParameters", step |-> "stepParameters",
     job |-> "jobParameters", workflow |-> "workflowParameters"]

Scopes == {"stepParameters", "jobParameters", "workflowParameters"}

RECURSIVE TextOf(_)
\* the text made of the pieces, in order
TextOf(pieces) ==
    IF pieces = <<>> THEN <<>> ELSE PieceText(Head(pieces)) \o TextOf(Tail(pieces))

---------------------------------------------------------------------------
(* parseJobLogs: the Step Log Segmenter *)

Marker == "##[group]"
NewLine == "\n"

\* the position of the first line break of a text, 0 when it has none
FirstBreak(text) ==
    IF \E i \in 1..Len(text) : text[i] = NewLine
    THEN CHOOSE i \in 1..Len(text) :
            text[i] = NewLine /\ \A j \in 1..(i - 1) : text[j] # NewLine
    ELSE 0

RECURSIVE Split(_)
\* text.split("\n"): the lines of a text, the empty text being one empty line
Split(text) ==
    LET n == FirstBreak(text)
    IN IF n = 0 THEN <<text>>
       ELSE <<SubSeq(text, 1, n - 1)>> \o Split(SubSeq(text, n + 1, Len(text)))

RECURSIVE Join(_)
\* list.join("\n")
Join(list) ==
    IF list = <<>> THEN <<>>
    ELSE IF Len(list) = 1 THEN list[1]
    ELSE list[1] \o <<NewLine>> \o Join(Tail(list))

\* line.match(/##\[group\]/)
stepMatch(line) == \E i \in 1..Len(line) : line[i] = Marker

\* new Map<number, ParsedStepLogs>()
NoStepLogs == [i \in {} |-> EmptyParsed]

\* the guard that also wants the step list to be empty
EarlyReturnBoth(log, list) == log = <<>> /\ Len(list) = 0

\* if (!jobLog || steps.length === 0) return stepLogs
EarlyReturn(log, list) == log = <<>> \/ Len(list) = 0

\* the locals with a segment already open when the loop starts
Locals0Open(list) ==
    [steps |-> list, currentStepNumber |-> 0, currentStepLogs |-> <<>>,
     stepLogs |-> NoStepLogs, debugOutput |-> <<>>]

\* what is in scope in parseJobLogs when the loop starts: the parameter steps,
\* stepLogs (line 49), currentStepNumber and currentStepLogs (lines 62-63),
\* and the output of core.debug, empty so far
Locals0(list) ==
    [steps |-> list, currentStepNumber |-> -1, currentStepLogs |-> <<>>,
     stepLogs |-> NoStepLogs, debugOutput |-> <<>>]

\* core.debug(`Parsed ${n} step parameters for step ${currentStepNumber}`)
DebugMessage(l) ==
    [parsed |-> Cardinality(DOMAIN l.stepLogs[l.currentStepNumber].stepParameters),
     step |-> l.currentStepNumber]

\* stepLogs.set(currentStepNumber, parseStepLogs(currentStepLogs.join("\n")))
\* and the debug message about it
Save(l) ==
    LET set == [l EXCEPT !.stepLogs =
                    (l.currentStepNumber :> parseStepLogs(Join(l.currentStepLogs))) @@ @]
    IN [set EXCEPT !.debugOutput = Append(@, DebugMessage(set))]

\* a flush that saves a segment only when it holds a parameter
FlushTagged(l) ==
    IF /\ l.currentStepNumber >= 0 /\ Len(l.currentStepLogs) > 0
       /\ parseStepLogs(Join(l.currentStepLogs)) # EmptyParsed
    THEN Save(l) ELSE l

\* if (currentStepNumber >= 0 && currentStepLogs.length > 0) { ... }
Flush(l) ==
    IF l.currentStepNumber >= 0 /\ Len(l.currentStepLogs) > 0 THEN Save(l) ELSE l

\* a loop body that opens no more segments than steps were declared
ScanLineDeclared(l, line) ==
    IF stepMatch(line) /\ l.currentStepNumber + 1 < Len(l.steps)
    THEN [Flush(l) EXCEPT !.currentStepNumber = @ + 1, !.currentStepLogs = <<line>>]
    ELSE [l EXCEPT !.currentStepLogs = Append(@, line)]

\* a loop body that opens every segment under the index 0
ScanLineSameIndex(l, line) ==
    IF stepMatch(line)
    THEN [Flush(l) EXCEPT !.currentStepNumber = 0, !.currentStepLogs = <<line>>]
    ELSE [l EXCEPT !.currentStepLogs = Append(@, line)]

\* a loop body that leaves the marker line in the segment it closes
ScanLineMarkerCloses(l, line) ==
    IF stepMatch(line)
    THEN [Flush([l EXCEPT !.currentStepLogs = Append(@, line)])
            EXCEPT !.currentStepNumber = @ + 1, !.currentStepLogs = <<>>]
    ELSE [l EXCEPT !.currentStepLogs = Append(@, line)]

\* the body of the loop over the lines
ScanLine(l, line) ==
    IF stepMatch(line)
    THEN [Flush(l) EXCEPT !.currentStepNumber = @ + 1, !.currentStepLogs = <<line>>]
    ELSE [l EXCEPT !.currentStepLogs = Append(@, line)]

RECURSIVE ScanLines(_, _)
\* for (const line of lines) { ... }
ScanLines(l, list) ==
    IF list = <<>> THEN l ELSE ScanLines(ScanLine(l, Head(list)), Tail(list))

\* the call as a whole: the map returned and the debug output produced
parseJobLogs(log, list) ==
    IF EarlyReturn(log, list) THEN Locals0(list)
    ELSE Flush(ScanLines(Locals0(list), Split(log)))

---------------------------------------------------------------------------
(* loadSpanParametersFromArtifact: the artifact loader *)

\* the optional arguments of a call: whether each was given with a truthy value
Requests == [workflowRunId : BOOLEAN, octokit : BOOLEAN, owner : BOOLEAN, repo : BOOLEAN]

NoRequest == [workflowRunId |-> FALSE, octokit |-> FALSE, owner |-> FALSE, repo |-> FALSE]

\* what the working directory holds when the loader is called:
\* otel-span-params/params.json (absent, a JSON document, or text that is no
\* JSON) and .otel-span-params-download (absent, or left by an earlier run
\* with its params.json); later the directory is "empty", or holds the
\* params.json of the download, "valid" JSON or "invalid"; created records
\* whether this call of the loader made the directory (mkdirSync, line 57)
FileSystems ==
    [localFile : {"absent", "valid", "invalid"}, downloadDir : {"absent", "stale"},
     created : {FALSE}]

\* what a failing call throws, by what the catch clauses tell apart: an Error
\* whose message says not found, another Error, a value that is no Error
Errors == {"notFound", "failure", "notAnError"}

\* what JSON.parse throws on text that is no JSON: a SyntaxError, whose message
\* quotes the text on recent runtimes and so may hold the words not found
ParseErrors == {"failure", "failureSayingNotFound"}

\* a remote source chosen on the run id and the client alone
RemoteSourceWithoutRepository(req) ==
    IF req.workflowRunId /\ req.octokit THEN "hostApi" ELSE "artifactApi"

\* if (workflowRunId && octokit && owner && repo) the host API, else the
\* artifact API
RemoteSource(req) ==
    IF req.workflowRunId /\ req.octokit /\ req.owner /\ req.repo
    THEN "hostApi" ELSE "artifactApi"

\* a local file that cannot be parsed treated like one that does not exist
AfterLocalFallsBack(file) == IF file = "valid" THEN "loaded" ELSE "source"

\* where control goes once the local file was looked for: past the if of line
\* 34 when it does not exist, to the return of line 40 when it was parsed, to
\* the catch clause when JSON.parse threw
AfterLocal(file) ==
    CASE file = "absent" -> "source"
      [] file = "valid" -> "loaded"
      [] file = "invalid" -> "catch"

\* error.message.includes("Unable to find") || error.message.includes("not found")
CatchMessage(e) ==
    CASE e \in {"notFound", "failureSayingNotFound"} ->
            <<[level |-> "info", text |-> "No span parameters artifact found"]>>
      [] e = "failure" -> <<[level |-> "warning", text |-> "Failed to load span parameters artifact"]>>
      [] e = "notAnError" -> <<>>

Info(text) == [level |-> "info", text |-> text]
Warning(text) == [level |-> "warning", text |-> text]
Debug(text) == [level |-> "debug", text |-> text]

\* the catch clause of loadSpanParametersViaGitHubAPI
HostCatchMessage(e) ==
    IF e = "notAnError" THEN <<>>
    ELSE <<Warning("Failed to download artifact via GitHub API")>>

---------------------------------------------------------------------------
(* The scanner as a state machine: a step prints its log piece by piece, *)
(* then parseStepLogs is called on the text                              *)

ScannerIdle == logs = <<>> /\ written = <<>> /\ parsed = EmptyParsed

\* the four patterns as the module creates them: lastIndex 0
PatternsIdle == lastIndex = [s \in Shapes |-> 0] /\ calls = <<>>

LocalsIdle ==
    /\ lines = <<>> /\ lineNo = 0
    /\ currentStepNumber = -1 /\ currentStepLogs = <<>>
    /\ stepLogs = NoStepLogs /\ debugOutput = <<>>

SegmenterIdle == jobLog = <<>> /\ steps = <<>> /\ jobLines = <<>> /\ LocalsIdle

LoaderIdle ==
    /\ request = NoRequest
    /\ fileSystem = [localFile |-> "absent", downloadDir |-> "absent", created |-> FALSE]
    /\ consulted = <<>> /\ messages = <<>> /\ loaded = "pending" /\ error = "none"

MergerIdle ==
    /\ maps = <<>> /\ tables = <<>>
    /\ artifactParams = Null /\ logParams = Null /\ merged = Null
    /\ before = [artifact |-> AbsentValue, log |-> AbsentValue]

InitScan ==
    /\ MergerIdle /\ ScannerIdle /\ PatternsIdle /\ SegmenterIdle /\ LoaderIdle
    /\ pc = "logs"

\* the step prints a parameter tag
WriteTag ==
    /\ pc = "logs" /\ Len(written) < MaxPieces
    /\ \E p \in Tags :
          /\ logs' = logs \o PieceText(p)
          /\ written' = Append(written, p)
    /\ UNCHANGED <<mergerVars, patternVars, segmenterVars, loaderVars, parsed, pc>>

\* the step prints something else
WriteOther ==
    /\ pc = "logs" /\ Len(written) < MaxPieces
    /\ \E p \in Others :
          /\ logs' = logs \o PieceText(p)
          /\ written' = Append(written, p)
    /\ UNCHANGED <<mergerVars, patternVars, segmenterVars, loaderVars, parsed, pc>>

\* parsed = parseStepLogs(logs)
Parse ==
    /\ pc = "logs"
    /\ parsed' = parseStepLogs(logs)
    /\ pc' = "parsed"
    /\ UNCHANGED <<mergerVars, patternVars, segmenterVars, loaderVars, logs, written>>

NextScan == WriteTag \/ WriteOther \/ Parse

SpecScan == InitScan /\ [][NextScan]_vars

\* largest number of calls of parseStepLogs in one run of the module
MaxCalls == 3

\* the texts of the steps parseStepLogs is called on
CallTexts ==
    {<<>>, <<"x">>} \cup {PieceText(p) : p \in {t \in Tags : t.key = <<"a">>}}

InitCalls ==
    /\ MergerIdle /\ ScannerIdle /\ PatternsIdle /\ SegmenterIdle /\ LoaderIdle
    /\ pc = "calls"

\* parseStepLogs(text) is called once more in the same module instance
CallParseStepLogs ==
    /\ pc = "calls" /\ Len(calls) < MaxCalls
    /\ \E text \in CallTexts :
          /\ calls' = Append(calls, [text |-> text, result |-> parseStepLogs(text)])
          /\ lastIndex' =
                [s \in Shapes |->
                    AfterMatchAll(lastIndex[s],
                                  MatchAll(text, TagName[s], lastIndex[s] + 1))]
    /\ UNCHANGED <<mergerVars, scannerVars, segmenterVars, loaderVars, pc>>

\* calls of parseStepLogs one after the other
SpecCalls == InitCalls /\ [][CallParseStepLogs]_vars

\* the step prints a tag with any key and any value
WriteAnyTag ==
    /\ pc = "logs" /\ Len(written) < MaxPieces
    /\ \E p \in AnyTags :
          /\ logs' = logs \o PieceText(p)
          /\ written' = Append(written, p)
    /\ UNCHANGED <<mergerVars, patternVars, segmenterVars, loaderVars, parsed, pc>>

NextKeys == WriteAnyTag \/ Parse

\* texts of tags over the whole alphabet of keys and values
SpecKeys == InitScan /\ [][NextKeys]_vars

\* the step prints tag-like text that is no tag
WriteMalformed ==
    /\ pc = "logs" /\ Len(written) < MaxPieces
    /\ \E p \in Malformed :
          /\ logs' = logs \o PieceText(p)
          /\ written' = Append(written, p)
    /\ UNCHANGED <<mergerVars, patternVars, segmenterVars, loaderVars, parsed, pc>>

NextMalformed == WriteTag \/ WriteOther \/ WriteMalformed \/ Parse

\* texts of tags, tag-like text and other text
SpecMalformed == InitScan /\ [][NextMalformed]_vars

---------------------------------------------------------------------------
(* The segmenter as a state machine: a job prints its log line by line,   *)
(* then parseJobLogs is called on the text with a step list and scans the *)
(* lines one by one                                                        *)

\* largest number of lines a job log is written from
MaxLines == 3
\* largest number of step descriptors in the step list
MaxSteps == 2

\* { name, number }[] with the numbers counting up from 1
Ascending(n) == [i \in 1..n |-> [name |-> "build", number |-> i]]
\* { name, number }[] with the numbers counting down to 1
Descending(n) == [i \in 1..n |-> [name |-> "test", number |-> n + 1 - i]]

StepLists == {Ascending(n) : n \in 0..MaxSteps} \cup {Descending(MaxSteps)}

\* the lines a job prints: marker lines as the runner writes them (a time
\* stamp, the marker), a marker line that carries a tag, lines with a tag of
\* each scope, plain lines, empty lines
JobLineChoices ==
    {[kind |-> "marker", tag |-> <<>>, text |-> <<"x", Marker>>],
     [kind |-> "text", tag |-> <<>>, text |-> <<"x">>],
     [kind |-> "text", tag |-> <<>>, text |-> <<>>]}
    \cup {[kind |-> "marker", tag |-> <<p>>, text |-> <<Marker>> \o PieceText(p)] :
            p \in {t \in Tags : t.shape = "span" /\ t.key = <<"b">> /\ t.value = <<"2">>}}
    \cup {[kind |-> "tag", tag |-> <<p>>, text |-> PieceText(p)] :
            p \in {t \in Tags : /\ t.key = <<"a">> /\ t.value = <<"1">>
                                 /\ t.shape \in {"span", "job", "workflow"}}}

InitJob ==
    /\ MergerIdle /\ ScannerIdle /\ PatternsIdle /\ SegmenterIdle /\ LoaderIdle
    /\ pc = "job"

\* the job prints one more line
WriteLine ==
    /\ pc = "job" /\ Len(jobLines) < MaxLines
    /\ \E l \in JobLineChoices :
          /\ jobLines' = Append(jobLines, l)
          /\ jobLog' = IF jobLines = <<>> THEN l.text ELSE jobLog \o <<NewLine>> \o l.text
    /\ UNCHANGED <<mergerVars, scannerVars, patternVars, loaderVars, steps, localVars, pc>>

\* parseJobLogs(jobLog, steps) is called: lines 48-63
CallParseJobLogs ==
    /\ pc = "job"
    /\ \E list \in StepLists :
          /\ steps' = list
          /\ IF EarlyReturn(jobLog, list)
             THEN pc' = "done" /\ lines' = lines
             ELSE pc' = "scan" /\ lines' = Split(jobLog)
          /\ currentStepNumber' = Locals0(list).currentStepNumber
          /\ currentStepLogs' = Locals0(list).currentStepLogs
          /\ stepLogs' = Locals0(list).stepLogs
          /\ debugOutput' = Locals0(list).debugOutput
    /\ lineNo' = 0
    /\ UNCHANGED <<mergerVars, scannerVars, patternVars, loaderVars, jobLog, jobLines>>

\* the locals of parseJobLogs as one record
Locals ==
    [steps |-> steps, currentStepNumber |-> currentStepNumber,
     currentStepLogs |-> currentStepLogs,
     stepLogs |-> stepLogs, debugOutput |-> debugOutput]

SetLocals(l) ==
    /\ currentStepNumber' = l.currentStepNumber
    /\ currentStepLogs' = l.currentStepLogs
    /\ stepLogs' = l.stepLogs
    /\ debugOutput' = l.debugOutput

\* one iteration of the loop: lines 65-87
NextLine ==
    /\ pc = "scan" /\ lineNo < Len(lines)
    /\ SetLocals(ScanLine(Locals, lines[lineNo + 1]))
    /\ lineNo' = lineNo + 1
    /\ UNCHANGED <<mergerVars, scannerVars, patternVars, loaderVars,
                   jobLog, steps, jobLines, lines, pc>>

\* after the loop: the last segment is flushed and the map returned, lines 89-98
Return ==
    /\ pc = "scan" /\ lineNo = Len(lines)
    /\ SetLocals(Flush(Locals))
    /\ pc' = "done"
    /\ UNCHANGED <<mergerVars, scannerVars, patternVars, loaderVars,
                   jobLog, steps, jobLines, lines, lineNo>>

NextJob == WriteLine \/ CallParseJobLogs \/ NextLine \/ Return

SpecJob == InitJob /\ [][NextJob]_vars

---------------------------------------------------------------------------
(* The loader as a state machine: one call of loadSpanParametersFromArtifact, *)
(* statement by statement; the outcome of each call to the file system, the   *)
(* artifact API and the host API is the environment's choice                  *)

InitLoad ==
    /\ MergerIdle /\ ScannerIdle /\ PatternsIdle /\ SegmenterIdle
    /\ request \in Requests /\ fileSystem \in FileSystems
    /\ consulted = <<>> /\ messages = <<>> /\ loaded = "pending" /\ error = "none"
    /\ pc = "local"

coreVars == <<mergerVars, scannerVars, patternVars, segmenterVars>>

\* lines 31-41: the local file is looked for, and read when it exists
CheckLocal ==
    /\ pc = "local"
    /\ consulted' = Append(consulted, "local")
    /\ CASE fileSystem.localFile = "absent" ->
               UNCHANGED <<messages, loaded, error>>
         [] fileSystem.localFile = "valid" ->
               /\ messages' = messages \o <<Info("Found local span parameters file"),
                                            Info("Loaded span parameters from local file"),
                                            Debug("Span parameters")>>
               /\ loaded' = "local" /\ UNCHANGED error
         [] fileSystem.localFile = "invalid" ->
               /\ messages' = Append(messages, Info("Found local span parameters file"))
               /\ \E e \in ParseErrors : error' = e
               /\ UNCHANGED loaded
    /\ pc' = AfterLocal(fileSystem.localFile)
    /\ UNCHANGED <<coreVars, request, fileSystem>>

\* lines 43-51: the remote source is chosen on the optional arguments
ChooseSource ==
    /\ pc = "source"
    /\ IF RemoteSource(request) = "hostApi"
       THEN /\ messages' = Append(messages, Info("Looking for artifact from workflow run"))
            /\ pc' = "hostList"
       ELSE /\ messages' = Append(messages, Info("Attempting to use @actions/artifact API"))
            /\ pc' = "mkdir"
    /\ UNCHANGED <<coreVars, request, fileSystem, consulted, loaded, error>>

\* lines 116-131: the artifacts of the run are listed and searched by name
HostList ==
    /\ pc = "hostList"
    /\ consulted' = Append(consulted, "hostApi")
    /\ \/ /\ messages' = messages \o <<Info("Fetching artifacts for workflow run"),
                                         Info("Found artifact")>>
          /\ pc' = "hostDownload" /\ UNCHANGED <<loaded, error>>
       \/ /\ messages' = messages \o <<Info("Fetching artifacts for workflow run"),
                                         Info("Artifact not found in workflow run")>>
          /\ loaded' = "null" /\ pc' = "loaded" /\ UNCHANGED error
       \/ \E e \in Errors :
             /\ messages' = messages \o <<Info("Fetching artifacts for workflow run")>>
                                     \o HostCatchMessage(e)
             /\ error' = e
             /\ loaded' = "null" /\ pc' = "loaded"
    /\ UNCHANGED <<coreVars, request, fileSystem>>

\* lines 135-144: the artifact is downloaded as a zip and opened
HostDownload ==
    /\ pc = "hostDownload"
    /\ \/ pc' = "hostExtract" /\ UNCHANGED <<messages, loaded, error>>
       \/ \E e \in Errors :
             /\ messages' = messages \o HostCatchMessage(e)
             /\ error' = e
             /\ loaded' = "null" /\ pc' = "loaded"
    /\ UNCHANGED <<coreVars, request, fileSystem, consulted>>

\* lines 146-162: params.json is looked for in the zip and parsed
HostExtract ==
    /\ pc = "hostExtract"
    /\ \/ /\ messages' = Append(messages, Warning("params.json not found in artifact zip"))
          /\ loaded' = "null" /\ UNCHANGED error
       \/ \E e \in ParseErrors :
             /\ messages' = messages \o HostCatchMessage(e)
             /\ error' = e
             /\ loaded' = "null"
       \/ /\ messages' = messages \o <<Info("Loaded span parameters from GitHub API artifact download"),
                                         Debug("Span parameters")>>
          /\ loaded' = "hostApi" /\ UNCHANGED error
    /\ pc' = "loaded"
    /\ UNCHANGED <<coreVars, request, fileSystem, consulted>>

\* lines 52-60: the download directory is created unless it exists
MakeDownloadDir ==
    /\ pc = "mkdir"
    /\ fileSystem' = [fileSystem EXCEPT !.downloadDir = IF @ = "absent" THEN "empty" ELSE @,
                                        !.created = (fileSystem.downloadDir = "absent")]
    /\ messages' = Append(messages, Info("Looking for artifact"))
    /\ pc' = "getArtifact"
    /\ UNCHANGED <<coreVars, request, consulted, loaded, error>>

\* lines 62-64: client.getArtifact(artifactName)
GetArtifact ==
    /\ pc = "getArtifact"
    /\ consulted' = Append(consulted, "artifactApi")
    /\ \/ /\ messages' = Append(messages, Info("Found artifact"))
          /\ pc' = "downloadArtifact" /\ UNCHANGED error
       \/ \E e \in Errors : error' = e /\ pc' = "catch" /\ UNCHANGED messages
    /\ UNCHANGED <<coreVars, request, fileSystem, loaded>>

\* lines 66-71: client.downloadArtifact(id, { path: downloadPath }); the
\* artifact holds a params.json that is JSON, one that is not, or none
DownloadArtifact ==
    /\ pc = "downloadArtifact"
    /\ \/ \E content \in {"valid", "invalid", "none"} :
             /\ fileSystem' = [fileSystem EXCEPT !.downloadDir =
                                   IF content = "none" THEN @ ELSE content]
             /\ messages' = Append(messages, Info("Downloaded artifact to"))
             /\ pc' = "readParams" /\ UNCHANGED error
       \/ \E e \in Errors :
             error' = e /\ pc' = "catch" /\ UNCHANGED <<fileSystem, messages>>
    /\ UNCHANGED <<coreVars, request, consulted, loaded>>

\* lines 73-90: the downloaded params.json is looked for, read and parsed, and
\* the download directory removed
ReadParams ==
    /\ pc = "readParams"
    /\ CASE fileSystem.downloadDir = "empty" ->
               /\ messages' = Append(messages, Warning("Artifact downloaded but params.json not found"))
               /\ loaded' = "null" /\ pc' = "loaded"
               /\ UNCHANGED <<fileSystem, error>>
         [] fileSystem.downloadDir = "invalid" ->
               /\ \E e \in ParseErrors : error' = e
               /\ pc' = "catch"
               /\ UNCHANGED <<fileSystem, messages, loaded>>
         [] fileSystem.downloadDir \in {"valid", "stale"} ->
               /\ messages' = messages \o <<Info("Loaded span parameters from artifact"),
                                            Debug("Span parameters")>>
               /\ loaded' = IF fileSystem.downloadDir = "stale" THEN "stale" ELSE "artifactApi"
               /\ fileSystem' = [fileSystem EXCEPT !.downloadDir = "absent"]
               /\ pc' = "loaded"
               /\ UNCHANGED error
    /\ UNCHANGED <<coreVars, request, consulted>>

\* lines 91-101: the catch clause of loadSpanParametersFromArtifact
Catch ==
    /\ pc = "catch"
    /\ messages' = messages \o CatchMessage(error)
    /\ loaded' = "null"
    /\ pc' = "loaded"
    /\ UNCHANGED <<coreVars, request, fileSystem, consulted, error>>

NextLoad ==
    \/ CheckLocal \/ ChooseSource
    \/ HostList \/ HostDownload \/ HostExtract
    \/ MakeDownloadDir \/ GetArtifact \/ DownloadArtifact \/ ReadParams
    \/ Catch

SpecLoad == InitLoad /\ [][NextLoad]_vars

---------------------------------------------------------------------------
(* The merger as a state machine: a call on two arguments, then a caller *)
(* that changes the structure it was handed                              *)

InitOn(arguments, limit) ==
    \E a \in arguments, l \in arguments :
        LET sa == Store([maps |-> <<>>, tables |-> <<>>], a)
            sl == Store(sa.heap, l)
        IN /\ ParamCount(a) + ParamCount(l) <= limit
           /\ maps = sl.heap.maps
           /\ tables = sl.heap.tables
           /\ artifactParams = sa.ref
           /\ logParams = sl.ref
           /\ merged = Null
           /\ before = [artifact |-> a, log |-> l]
           /\ ScannerIdle /\ PatternsIdle /\ SegmenterIdle /\ LoaderIdle
           /\ pc = "start"

Init == InitOn(TypedArguments, 2 * MaxParams)

InitUntyped == InitOn(UntypedArguments, MaxUntypedParams)

Heap == [maps |-> maps, tables |-> tables]

\* merged = mergeSpanParameters(artifactParams, logParams)
Merge ==
    /\ pc = "start"
    /\ LET r == mergeSpanParameters(Heap, artifactParams, logParams)
       IN /\ maps' = r.maps
          /\ tables' = r.tables
          /\ merged' = IF r.threw THEN Null ELSE r.merged
          /\ pc' = IF r.threw THEN "threw" ELSE "returned"
    /\ UNCHANGED <<artifactParams, logParams, before, scannerVars,
                   patternVars, segmenterVars, loaderVars>>

\* the caller writes merged.workflow[k], merged.job[k] or merged.steps[s][k]
MutateMap ==
    /\ pc = "returned"
    /\ \E ref \in MapRefs(Heap, merged) :
          maps' = [maps EXCEPT ![ref] = (ChangedKey :> Changed) @@ @]
    /\ pc' = "mutated"
    /\ UNCHANGED <<tables, artifactParams, logParams, merged, before, scannerVars,
                   patternVars, segmenterVars, loaderVars>>

\* the caller writes merged.steps[s] = {}
MutateSteps ==
    /\ pc = "returned"
    /\ \E s \in StepNames :
          /\ maps' = Append(maps, EmptyMap)
          /\ tables' = [tables EXCEPT ![merged.steps] = (s :> Len(maps')) @@ @]
    /\ pc' = "mutated"
    /\ UNCHANGED <<artifactParams, logParams, merged, before, scannerVars,
                   patternVars, segmenterVars, loaderVars>>

Next == Merge \/ MutateMap \/ MutateSteps

Spec == Init /\ [][Next]_vars

\* the call alone, on arguments that may lack properties
SpecUntyped == InitUntyped /\ [][Merge]_vars

---------------------------------------------------------------------------
(* Properties of the Parameter Set Merger *)

A0 == before.artifact
L0 == before.log
Result == View(Heap, merged)

\* the key-wise union of two mappings in which the artifact's value wins
UnionArtifactWins(a, l) ==
    [k \in DOMAIN a \cup DOMAIN l |-> IF k \in DOMAIN a THEN a[k] ELSE l[k]]

\* C1: for present sources A and L, the merged workflow and job mappings have
\* as keys the union of the two sources' keys of that scope, and every key
\* holds A's value when A has the key and L's value otherwise.
C1_WorkflowJobUnion ==
    (pc = "returned" /\ A0.present /\ L0.present) =>
        /\ DOMAIN Result.workflow = DOMAIN A0.workflow \cup DOMAIN L0.workflow
        /\ \A k \in DOMAIN Result.workflow :
              Result.workflow[k] = IF k \in DOMAIN A0.workflow THEN A0.workflow[k]
                                   ELSE L0.workflow[k]
        /\ DOMAIN Result.job = DOMAIN A0.job \cup DOMAIN L0.job
        /\ \A k \in DOMAIN Result.job :
              Result.job[k] = IF k \in DOMAIN A0.job THEN A0.job[k] ELSE L0.job[k]

\* both sources give the same workflow key different values; the artifact's is kept
C1_Witness ==
    /\ pc = "returned" /\ A0.present /\ L0.present
    /\ \E k \in DOMAIN A0.workflow \cap DOMAIN L0.workflow :
          /\ A0.workflow[k] # L0.workflow[k]
          /\ Result.workflow[k] = A0.workflow[k]

C3_NeverFails ==
    /\ pc # "threw"
    /\ pc = "returned" =>
          /\ Result.workflow = UnionArtifactWins(A0.workflow, L0.workflow)
          /\ Result.job = UnionArtifactWins(A0.job, L0.job)
          /\ DOMAIN Result.steps = DOMAIN A0.steps \cup DOMAIN L0.steps

\* What the code does in the case of C3: the call throws exactly when a present
\* argument lacks its steps mapping; a missing workflow or job mapping is read
\* as an empty one.
C3_ThrowsOnMissingSteps ==
    pc # "start" =>
        /\ pc = "threw" <=>
              \/ A0.present /\ ~A0.hasSteps
              \/ L0.present /\ ~L0.hasSteps
        /\ pc = "returned" =>
              /\ Result.workflow = UnionArtifactWins(A0.workflow, L0.workflow)
              /\ Result.job = UnionArtifactWins(A0.job, L0.job)

C6_NoMutationNoSharing ==
    pc # "start" =>
        /\ View(Heap, artifactParams) = A0
        /\ View(Heap, logParams) = L0
        /\ pc # "threw" =>
              /\ MapRefs(Heap, merged)
                    \cap (MapRefs(Heap, artifactParams) \cup MapRefs(Heap, logParams)) = {}
              /\ TableRefs(merged)
                    \cap (TableRefs(artifactParams) \cup TableRefs(logParams)) = {}

\* the caller has changed a per-step mapping of a step that came from the log
C6_Witness ==
    /\ pc = "mutated" /\ L0.present
    /\ \E s \in DOMAIN L0.steps \cap DOMAIN Result.steps :
          /\ \E k \in DOMAIN Result.steps[s] : Result.steps[s][k] = Changed
          /\ View(Heap, logParams).steps[s] = L0.steps[s]

\* the result merged once more, as the artifact side, with an absent log side
MergedAgain == mergeSpanParameters(Heap, merged, Null)

\* C7: merging the result of a merge with an absent log side gives the same
\* result again, for all sources A and L, present or absent.
C7_Idempotent ==
    pc = "returned" =>
        /\ ~MergedAgain.threw
        /\ View(MergedAgain, MergedAgain.merged) = Result

\* a result with entries in steps, from two present sources, merged once more
C7_Witness ==
    /\ pc = "returned" /\ A0.present /\ L0.present
    /\ \E s \in DOMAIN Result.steps : DOMAIN Result.steps[s] # {}
    /\ View(MergedAgain, MergedAgain.merged) = Result

---------------------------------------------------------------------------
(* Properties of the Tag Scanner *)

IsTag(p, shape, key) == p.kind = "tag" /\ p.shape = shape /\ p.key = key

\* a tag of this shape with this key was printed
Occurs(shape, key) == \E i \in 1..Len(written) : IsTag(written[i], shape, key)

\* the value of the last tag of this shape with this key, in text order
LastValue(shape, key) ==
    LET last == CHOOSE i \in 1..Len(written) :
                    /\ IsTag(written[i], shape, key)
                    /\ \A j \in (i + 1)..Len(written) : ~IsTag(written[j], shape, key)
    IN written[last].value

\* the mapping of one scope that parseStepLogs builds from a text
ParametersOf(scope, text) ==
    CASE scope = "stepParameters" -> StepParameters(text)
      [] scope = "jobParameters" -> JobParameters(text)
      [] scope = "workflowParameters" -> WorkflowParameters(text)

\* the text without the tags of the scopes other than `scope`
WithoutOtherScopes(scope) ==
    TextOf(SelectSeq(written, LAMBDA p : p.kind # "tag" \/ ScopeOf[p.shape] = scope))

SeveralOccurrences(shape) ==
    \E i, j \in 1..Len(written) :
        /\ i < j
        /\ IsTag(written[i], shape, written[j].key)
        /\ IsTag(written[j], shape, written[j].key)
        /\ written[i].value # written[j].value
        /\ \A n \in 1..Len(written) : written[n].kind = "tag" => written[n].shape = shape
        /\ parsed[ScopeOf[shape]][written[j].key] = written[j].value

Alone(i) ==
    \A j \in 1..Len(written) :
        (j # i /\ ScopeOf[written[j].shape] = ScopeOf[written[i].shape])
            => written[j].key # written[i].key

\* the tag written as piece i is recorded in the mapping of its scope
RecordedAsWritten(i) ==
    /\ written[i].key \in DOMAIN parsed[ScopeOf[written[i].shape]]
    /\ parsed[ScopeOf[written[i].shape]][written[i].key] = written[i].value

\* C11: every tag of a recognized shape whose key K and whose value V are any
\* sequences of characters other than the double quote, the empty one
\* included, is recorded as mapping[K] = V; a tag with an empty value is
\* recorded with the empty string.
C11_AnyKeyAnyValue ==
    pc = "parsed" =>
        \A i \in 1..Len(written) : Alone(i) => RecordedAsWritten(i)

\* what the code does instead: the tags with an empty key and the tags with the
\* key __proto__ are the ones that leave no entry; every other tag is recorded,
\* an empty value as the empty string
C11_AllButEmptyAndProto ==
    pc = "parsed" =>
        \A i \in 1..Len(written) :
            Alone(i) => (RecordedAsWritten(i) <=> written[i].key \notin {<<>>, ProtoKey})

\* the keys of the well-formed tags of a scope
KeysWritten(scope) ==
    {written[i].key :
        i \in {j \in 1..Len(written) :
                  written[j].kind = "tag" /\ ScopeOf[written[j].shape] = scope}}

\* the value the well-formed tags give a key: the last step-parameter tag,
\* else the last span-parameter tag; the last tag of the one shape otherwise
ValueWritten(scope, k) ==
    CASE scope = "stepParameters" ->
            IF Occurs("step", k) THEN LastValue("step", k) ELSE LastValue("span", k)
      [] scope = "jobParameters" -> LastValue("job", k)
      [] scope = "workflowParameters" -> LastValue("workflow", k)

\* the mapping of a scope as the well-formed tags alone determine it
FromTagsAlone(scope) == [k \in KeysWritten(scope) |-> ValueWritten(scope, k)]

\* C12: parseStepLogs completes on every text, and tag-like text that matches
\* none of the four patterns (missing quotes, wrong attribute name or order,
\* unclosed tag, unknown tag name) adds no entry to any mapping and changes no
\* entry of the well-formed tags in the same text: each mapping is what the
\* well-formed tags alone determine, and three empty mappings without them.
C12_MalformedIgnored ==
    pc = "parsed" => \A scope \in Scopes : parsed[scope] = FromTagsAlone(scope)

\* an unclosed tag followed by a well-formed tag of the same shape: the result
\* holds the entry of the well-formed tag and nothing else
C12_Witness ==
    /\ pc = "parsed" /\ Len(written) = 2
    /\ written[1].kind = "unclosed" /\ written[2].kind = "tag"
    /\ written[1].shape = written[2].shape
    /\ written[1].key # written[2].key
    /\ parsed[ScopeOf[written[2].shape]] = (written[2].key :> written[2].value)
    /\ \A scope \in Scopes \ {ScopeOf[written[2].shape]} : parsed[scope] = NoParameters

\* C18: parseStepLogs is a function of its text alone: two calls with the same
\* text return equal results, whatever calls were made before or between
\* them, because no call changes the lastIndex of a module-level pattern.
C18_SameTextSameResult ==
    /\ lastIndex = [s \in Shapes |-> 0]
    /\ \A i, j \in 1..Len(calls) :
          calls[i].text = calls[j].text => calls[i].result = calls[j].result

\* a text with a tag scanned, another text with a tag scanned, the first text
\* scanned again with the result of the first call
C18_Witness ==
    /\ Len(calls) = 3
    /\ calls[1].text = calls[3].text /\ calls[1].text # calls[2].text
    /\ calls[1].result # EmptyParsed /\ calls[2].result # EmptyParsed
    /\ calls[3].result = calls[1].result

---------------------------------------------------------------------------
(* Properties of the Step Log Segmenter *)

\* the lines of the job log that carry the marker, by their place in the log
MarkerLines == {j \in 1..Len(jobLines) : jobLines[j].kind = "marker"}

\* C13: parseJobLogs returns an empty mapping whenever the log text is empty
\* or the step list is empty, whatever the other argument holds.
C13_EmptyArgument ==
    pc = "done" => ((jobLog = <<>> \/ steps = <<>>) => stepLogs = NoStepLogs)

\* a log with a marker line and a tag, scanned with an empty step list
C13_Witness ==
    /\ pc = "done" /\ steps = <<>> /\ stepLogs = NoStepLogs
    /\ MarkerLines # {}
    /\ \E j \in 1..Len(jobLines) : jobLines[j].kind = "tag"

\* the positions of a text at which a line starts
LineStarts(text) == {1} \cup {j + 1 : j \in {i \in 1..Len(text) : text[i] = NewLine}}

\* the start of the line that position q lies on
LineStartOf(text, q) ==
    CHOOSE p \in LineStarts(text) :
        p <= q /\ \A r \in LineStarts(text) : r <= q => r <= p

\* the starts of the lines that hold the marker
MarkerLineStarts(text) ==
    {LineStartOf(text, q) : q \in {i \in 1..Len(text) : text[i] = Marker}}

\* the text from the marker line number i + 1, inclusive, up to the next
\* marker line, exclusive, or up to the end of the text
SegmentText(text, i) ==
    LET from == CHOOSE p \in MarkerLineStarts(text) :
                    Cardinality({r \in MarkerLineStarts(text) : r < p}) = i
        later == {r \in MarkerLineStarts(text) : r > from}
        next == CHOOSE r \in later : \A x \in later : r <= x
    IN SubSeq(text, from, IF later = {} THEN Len(text) ELSE next - 1)

\* C14: for a log with N marker lines and a non-empty step list, the key set
\* of the result is exactly {0, ..., N-1}, and the value at i is parseStepLogs
\* of the text from marker line i + 1, inclusive, up to the next marker line,
\* exclusive, or the end of the log: a marker line belongs to the segment it
\* opens.
C14_SegmentPerMarker ==
    (pc = "done" /\ steps # <<>>) =>
        LET N == Cardinality(MarkerLineStarts(jobLog))
        IN /\ N = Cardinality(MarkerLines)
           /\ DOMAIN stepLogs = 0..(N - 1)
           /\ \A i \in 0..(N - 1) :
                 stepLogs[i] = parseStepLogs(SegmentText(jobLog, i))

\* a marker line, a line with a tag, a marker line that carries a tag: the
\* first entry holds the tag of the second line, the second entry the tag of
\* the marker line that opens it
C14_Witness ==
    /\ pc = "done" /\ steps # <<>> /\ Len(jobLines) = 3
    /\ jobLines[1].kind = "marker" /\ jobLines[1].tag = <<>>
    /\ jobLines[2].kind = "tag" /\ jobLines[2].tag[1].shape = "span"
    /\ jobLines[3].kind = "marker" /\ jobLines[3].tag # <<>>
    /\ DOMAIN stepLogs = {0, 1}
    /\ stepLogs[0].stepParameters = (jobLines[2].tag[1].key :> jobLines[2].tag[1].value)
    /\ stepLogs[1].stepParameters = (jobLines[3].tag[1].key :> jobLines[3].tag[1].value)

\* the mapping parseJobLogs returns for the job log and a step list
ResultFor(list) == parseJobLogs(jobLog, list).stepLogs

\* C15 as stated: the result depends on the marker lines of the log alone and
\* not on the step list: any step list, whatever its length, names and
\* numbers, gives the same mapping, with one entry per marker line.
C15_IndependentOfSteps ==
    pc = "done" =>
        /\ \A list \in StepLists : ResultFor(list) = stepLogs
        /\ Cardinality(DOMAIN stepLogs) = Cardinality(MarkerLines)

\* C15 as amended: for a non-empty step list the result depends on the marker
\* lines of the log alone: every other non-empty step list, whatever its
\* length, names and numbers, gives the same mapping, with one entry per
\* marker line, also when the log has more or fewer marker lines than steps
\* were declared.
C15_IndependentOfNonEmptySteps ==
    (pc = "done" /\ steps # <<>>) =>
        /\ \A list \in StepLists \ {<<>>} : ResultFor(list) = stepLogs
        /\ Cardinality(DOMAIN stepLogs) = Cardinality(MarkerLines)

\* a log with more marker lines than steps were declared, and an entry for
\* each of the marker lines
C15_Witness ==
    /\ pc = "done" /\ steps # <<>>
    /\ Cardinality(MarkerLines) > Len(steps)
    /\ steps[1].number # 1
    /\ DOMAIN stepLogs = 0..(Cardinality(MarkerLines) - 1)
    /\ \E list \in StepLists :
          /\ list # <<>> /\ Len(list) < Len(steps) /\ list[1].name # steps[1].name
          /\ ResultFor(list) = stepLogs

\* the place of the first marker line, past the last line when there is none
FirstMarker ==
    IF MarkerLines = {} THEN Len(jobLines) + 1
    ELSE CHOOSE j \in MarkerLines : \A m \in MarkerLines : j <= m

\* the text of the lines from place `from` on
LogFrom(from) ==
    Join([j \in 1..(Len(jobLines) + 1 - from) |-> jobLines[from + j - 1].text])

\* C16: every line before the first marker line is discarded: each entry of
\* each mapping of the result is carried by a tag on a line from the first
\* marker line on, the result is the one the log without the lines before its
\* first marker line gives, and a log without marker line gives an empty
\* mapping.
C16_BeforeFirstMarkerDiscarded ==
    pc = "done" =>
        /\ MarkerLines = {} => stepLogs = NoStepLogs
        /\ \A i \in DOMAIN stepLogs : \A scope \in Scopes :
              \A k \in DOMAIN stepLogs[i][scope] :
                  \E j \in FirstMarker..Len(jobLines) :
                      /\ jobLines[j].tag # <<>>
                      /\ ScopeOf[jobLines[j].tag[1].shape] = scope
                      /\ jobLines[j].tag[1].key = k
                      /\ jobLines[j].tag[1].value = stepLogs[i][scope][k]
        /\ stepLogs = parseJobLogs(LogFrom(FirstMarker), steps).stepLogs

\* two lines with tags of different scopes, then a marker line: the one entry
\* of the result holds none of the two
C16_Witness ==
    /\ pc = "done" /\ steps # <<>> /\ Len(jobLines) = 3
    /\ jobLines[1].kind = "tag" /\ jobLines[2].kind = "tag"
    /\ ScopeOf[jobLines[1].tag[1].shape] # ScopeOf[jobLines[2].tag[1].shape]
    /\ jobLines[3].kind = "marker"
    /\ stepLogs = (0 :> EmptyParsed)

\* the marker line at place j opens a segment none of whose lines has a tag
SegmentUntagged(j) ==
    \A n \in j..Len(jobLines) :
        (\A m \in MarkerLines : m > j => n < m) => jobLines[n].tag = <<>>

\* C17: every segment that is flushed produces a map entry (there are as many
\* entries as flushes), and the segment of every marker line is flushed, the
\* last one included: a step whose segment has no tag is in the result with
\* three empty mappings.
C17_EntryForEverySegment ==
    /\ Cardinality(DOMAIN stepLogs) = Len(debugOutput)
    /\ (pc = "done" /\ steps # <<>>) =>
          \A j \in MarkerLines :
              LET i == Cardinality({m \in MarkerLines : m < j})
              IN /\ i \in DOMAIN stepLogs
                 /\ SegmentUntagged(j) => stepLogs[i] = EmptyParsed

\* a segment with a tag, then a marker line as the last line of the log: the
\* last segment, which nothing terminates and which has no tag, has its entry
C17_Witness ==
    /\ pc = "done" /\ steps # <<>> /\ Len(jobLines) = 3
    /\ MarkerLines = {1, 3} /\ jobLines[2].kind = "tag"
    /\ DOMAIN stepLogs = {0, 1}
    /\ stepLogs[0] # EmptyParsed /\ stepLogs[1] = EmptyParsed

\* C19: parseJobLogs has no effect outside its return value: for every log
\* and step list it emits nothing to any output or logging channel.
C19_NoOutput == pc = "done" => debugOutput = <<>>

\* what the code does instead: one message to core.debug for every entry
\* of the result, in the order of the entries
C19_OneMessagePerEntry ==
    pc = "done" =>
        /\ Len(debugOutput) = Cardinality(DOMAIN stepLogs)
        /\ \A n \in 1..Len(debugOutput) :
              debugOutput[n] =
                  [parsed |-> Cardinality(DOMAIN stepLogs[n - 1].stepParameters),
                   step |-> n - 1]

\* how many of the lines processed so far hold the marker
MarkersSeen == Cardinality({n \in 1..lineNo : jobLines[n].kind = "marker"})

\* after every processed line: the running index is the number of marker lines
\* seen minus one, the keys are the indices below it, and each of them was
\* written once, in ascending order
KeysBelowRunningIndex ==
    pc = "scan" =>
        /\ currentStepNumber = MarkersSeen - 1
        /\ DOMAIN stepLogs = 0..(currentStepNumber - 1)
        /\ DOMAIN debugOutput = 1..Cardinality(DOMAIN stepLogs)
        /\ \A n \in DOMAIN debugOutput : debugOutput[n].step = n - 1

\* a step of the scan leaves every entry that exists as it is
EntriesKept ==
    \A i \in DOMAIN stepLogs : i \in DOMAIN stepLogs' /\ stepLogs'[i] = stepLogs[i]

\* C23: during the scan of parseJobLogs, after every processed line the key
\* set of the result is exactly {0, ..., c-1}, c being the running step index
\* (the number of marker lines seen minus one; no keys while no marker line
\* was seen); each index is written exactly once, and an entry once written is
\* never overwritten or removed by a later line.
C23_KeysDuringScan == [](KeysBelowRunningIndex) /\ [][EntriesKept]_vars

\* two marker lines processed, the second one being the last line so far: the
\* first segment has its entry, the open one has none yet
C23_Witness ==
    /\ pc = "scan" /\ lineNo = 3 /\ MarkersSeen = 2
    /\ jobLines[3].kind = "marker"
    /\ currentStepNumber = 1 /\ DOMAIN stepLogs = {0}
    /\ stepLogs[0] # EmptyParsed

---------------------------------------------------------------------------
(* Properties of the artifact loader *)

Range(seq) == {seq[n] : n \in 1..Len(seq)}

\* some message of that level was logged
Logged(level) == \E n \in 1..Len(messages) : messages[n].level = level

\* C21: the loader never propagates a failure: on every path a not-found
\* condition yields absent, and any other exception raised while locating,
\* downloading or parsing the parameter data is logged as a warning and yields
\* absent as well.
C21_FailureLoggedAndAbsent ==
    pc = "loaded" =>
        /\ loaded # "pending"
        /\ error # "none" => loaded = "null"
        /\ error \notin {"none", "notFound"} => Logged("warning")

\* what the code does instead: every exception yields absent and none reaches
\* the caller; a warning is logged for an Error, except that on the local and
\* artifact-API paths an Error whose message holds the words of a not-found
\* report is logged as information; a thrown value that is no Error is not
\* logged at all
C21_AbsentOnEveryException ==
    pc = "loaded" =>
        /\ loaded # "pending"
        /\ error # "none" => loaded = "null"
        /\ error = "failure" => Logged("warning")
        /\ (error = "failureSayingNotFound" /\ "hostApi" \notin Range(consulted))
              => ~Logged("warning")
        /\ error = "notAnError" => ~Logged("warning")

\* C22: when the local file exists the loader decides from it alone and calls
\* neither remote API, also when parsing it fails (the result is then
\* absent); a remote source is contacted only when the local file does not
\* exist.
C22_LocalFileDecidesAlone ==
    /\ fileSystem.localFile # "absent" => Range(consulted) \subseteq {"local"}
    /\ (pc = "loaded" /\ fileSystem.localFile = "valid") => loaded = "local"
    /\ (pc = "loaded" /\ fileSystem.localFile = "invalid") => loaded = "null"
    /\ pc \in {"source", "hostList", "hostDownload", "hostExtract", "mkdir",
               "getArtifact", "downloadArtifact", "readParams"}
          => fileSystem.localFile = "absent"

\* a local file that failed to parse, a call with all the arguments of the
\* host API: the result is absent and no remote source was contacted
C22_Witness ==
    /\ pc = "loaded" /\ fileSystem.localFile = "invalid"
    /\ request.workflowRunId /\ request.octokit /\ request.owner /\ request.repo
    /\ consulted = <<"local">> /\ loaded = "null"

\* C24: whenever the loader takes the path of the artifact download API and
\* creates the temporary download directory, the directory has been removed
\* when the loader returns, on the success path and on every failure path
\* (the lookup or the download raising, the artifact lacking the parameter
\* file, the parameter file failing to parse).
C24_DownloadDirRemoved ==
    (pc = "loaded" /\ fileSystem.created) => fileSystem.downloadDir = "absent"

\* what the code does: the directory it created is removed on the success path
\* and left behind on each of the failure paths
C24_RemovedOnSuccessOnly ==
    (pc = "loaded" /\ fileSystem.created) =>
        (fileSystem.downloadDir = "absent" <=> loaded = "artifactApi")

---------------------------------------------------------------------------
(* The merger on its arguments in the other order *)

\* mergeSpanParameters(logParams, artifactParams): the call with the two
\* arguments exchanged, on the heap the first call left
Exchanged ==
    LET r == mergeSpanParameters(Heap, logParams, artifactParams)
    IN View(r, r.merged)

\* the keys two mappings share and give different values
Disagreed(f, g) == {k \in DOMAIN f \cap DOMAIN g : f[k] # g[k]}

\* the two sources give the same value to every key they share in workflow,
\* in job, and in each step identifier they share
ConflictFree(a, l) ==
    /\ Disagreed(a.workflow, l.workflow) = {}
    /\ Disagreed(a.job, l.job) = {}
    /\ \A s \in DOMAIN a.steps \cap DOMAIN l.steps : Disagreed(a.steps[s], l.steps[s]) = {}

\* two results have the same keys and differ exactly at the keys in `keys`
DifferAt(f, g, keys) ==
    /\ DOMAIN f = DOMAIN g
    /\ {k \in DOMAIN f : f[k] # g[k]} = keys

===========================================================================
